---- MODULE Spec2Model ----
(***************************************************************************)
(* RIVION front end: the FaceCaptureComponent capture loop                 *)
(* (src/unnamed/part_001) mounted by App                                   *)
(* (src/frontend/src/components/MetadataFormComponent.jsx, lines 90-348).  *)
(*                                                                         *)
(* One FaceCaptureComponent instance is mounted while App.stage is         *)
(* 'capture'.  Instances are numbered 1, 2, ... in mount order; `cur` is   *)
(* the number of the newest one.  The React state of the newest instance   *)
(* is held in scalars (an unmounted instance's state is discarded by       *)
(* React and never read again); what outlives an instance (its promises,   *)
(* its video element, its camera stream, its interval, its polls in        *)
(* flight) is indexed by instance.                                         *)
(*                                                                         *)
(* The camera cleanup reads videoRef.current when it runs (part_001:71).   *)
(* At unmount React detaches the ref of the <video> element and runs the   *)
(* useEffect cleanups; which comes first depends on the React release the  *)
(* bundle is built with (cleanups first in 16, refs first from 17 on), and *)
(* the repository does not pin one.  refsDetachFirst is that choice, made  *)
(* once per run.                                                           *)
(***************************************************************************)
EXTENDS Integers, Sequences, FiniteSets, TLC

\* ---------------------------------------------------------------- bounds
MaxInstances == 2      \* FaceCaptureComponent instances mounted in a run
MaxInFlight  == 2      \* detectFaces calls awaiting detectAllFaces, per instance
MaxFaces     == 2      \* face records in one detection result
MaxRequests  == 2      \* handleSearch calls awaiting analyzeFace

\* ------------------------------------------------------ program constants
VideoWidth   == 640    \* getUserMedia constraint width.ideal
VideoHeight  == 480    \* getUserMedia constraint height.ideal
CloserMax    == 15     \* facePercentage <= 15: move closer
BackMin      == 80     \* facePercentage >= 80: move back

NULL     == "null"
NoStream == 0

Inst == 1..MaxInstances

\* Bounding boxes a face record can carry: 2.7%, 25% and 90% of the frame.
Boxes == { [width |-> 96,  height |-> 86],
           [width |-> 320, height |-> 240],
           [width |-> 576, height |-> 480] }

\* The detection results detectAllFaces can return: 0..MaxFaces face records.
Detections == UNION { [1..n -> Boxes] : n \in 0..MaxFaces }

\* Sizes of the frames a camera can deliver: the size asked for as ideal
\* (part_001:49-50) and a larger one.
Frames == { [width |-> VideoWidth, height |-> VideoHeight],
            [width |-> 1000, height |-> 750] }

\* Boxes at the thresholds of the quality heuristic: exactly 15% and 80% of
\* the ideal frame, and 14.9%, 15.0%, 79.9% and 80.0% of the larger one.
BoundaryBoxes ==
    { [width |-> w, height |-> 480] : w \in {96, 512} }
        \cup { [width |-> w, height |-> 750] : w \in {149, 150, 799, 800} }

\* The detection results over all these boxes that lie inside a frame of
\* the given size.
QualityDetections(size) ==
    LET inside == { b \in Boxes \cup BoundaryBoxes :
                        b.width <= size.width /\ b.height <= size.height }
    IN  UNION { [1..n -> inside] : n \in 0..MaxFaces }

\* The base64 strings canvas.toDataURL can produce.
Images == {"data:image/jpeg;base64,AAAA", "data:image/jpeg;base64,BBBB"}

\* What the user can have typed into the name input.
Names == {"", "A", "Al"}

\* The bodies the backend can answer analyze-face with, and the messages of
\* the Error analyzeFace throws (part_000:80).
Responses == {"response"}
Failures  == {"Failed to analyze face"}

VARIABLES
    \* ---- App (MetadataFormComponent.jsx:96-164)
    appAlive,        \* the App root is mounted
    stage,           \* 'capture' | 'form' | 'results'
    capturedImage,
    results,
    isLoading,
    error,
    request,         \* the handleSearch calls awaiting analyzeFace, oldest first: payload and FormData of each
    privacyAgreed,   \* MetadataFormComponent state
    \* ---- FaceCaptureComponent, newest instance (part_001:9-13)
    cur,
    faceDetected,
    facesCount,
    modelsLoaded,
    isStreaming,
    faceQuality,
    \* ---- per instance
    load,            \* loadModels promise: "none" | "pending" | "resolved" | "rejected"
    videoRef,        \* videoRef.current (displayCanvasRef.current is attached and detached with it)
    srcObject,       \* srcObject of the instance's video element: NoStream or a stream
    metadataPending, \* onloadedmetadata is installed and the event has not fired
    streams,         \* stream asked for by the instance: "none" | "requested" | "live" | "stopped" | "rejected"
    intervals,       \* setInterval(detectFaces, 100): "none" | "armed" | "cleared"
    pollsInFlight,   \* detectFaces calls suspended at await detectAllFaces
    \* ---- the platform
    refsDetachFirst, \* React detaches refs before it runs useEffect cleanups (17+) or after (16)
    videoSize,       \* video.videoWidth and video.videoHeight of the camera's frames
    \* ---- history
    lastDetections,  \* detections of the mounted instance's most recent poll that returned
    lastPoll,        \* how its most recent completed poll ended: "none" | "returned" | "threw"
    onCaptureCalls,  \* invocations of the onCapture prop
    encoded,         \* images produced by canvas.toDataURL in handleCapture
    teardowns,       \* 1 once the effect cleanups of an instance have run
    alerted          \* the message of the alert() raised by the last step, or NULL

vars == << appAlive, stage, capturedImage, results, isLoading, error, request,
           privacyAgreed, cur, faceDetected, facesCount, modelsLoaded,
           isStreaming, faceQuality, load, videoRef, srcObject,
           metadataPending, streams, intervals, pollsInFlight,
           refsDetachFirst, videoSize, lastDetections, lastPoll, onCaptureCalls,
           encoded, teardowns, alerted >>

appVars   == << appAlive, stage, capturedImage, results, isLoading, error,
                request, privacyAgreed >>
stateVars == << faceDetected, facesCount, modelsLoaded, isStreaming, faceQuality >>
pollHist  == << lastDetections, lastPoll >>
platform  == << refsDetachFirst, videoSize >>

\* The instance is mounted: App renders it only while stage === 'capture'.
Mounted(i) == appAlive /\ stage = "capture" /\ i = cur

\* ------------------------------------------------------------- effects
\* Variant: the guard dropped: the camera is asked for whatever modelsLoaded is.
CameraEffectRunsAlways(ml) == TRUE

\* part_001:43  `if (!modelsLoaded) return;` -- the camera effect goes on to
\* call startCamera() only when modelsLoaded is true.
CameraEffectRuns(ml) == ml

\* Variant: the guard without its isStreaming half.
DetectionEffectRunsUnstreamed(ml, st) == ml

\* part_001:80  `if (!modelsLoaded || !isStreaming) return;` -- the detection
\* effect arms the interval only when both are true.
DetectionEffectRuns(ml, st) == ml /\ st

\* Variant: startCamera() called on every run of the camera effect.
StartCameraUnguarded(sm, i, ml) == [sm EXCEPT ![i] = "requested"]

\* part_001:47  startCamera() called by the camera effect: getUserMedia is
\* requested for the instance when the effect passes its guard.
StartCamera(sm, i, ml) ==
    IF CameraEffectRuns(ml) THEN [sm EXCEPT ![i] = "requested"] ELSE sm

\* Variant: a detection effect that never arms the interval.
ArmIntervalNever(iv, i, ml, st) == iv

\* part_001:149  detectionIntervalRef.current = setInterval(detectFaces, 100)
ArmInterval(iv, i, ml, st) ==
    IF DetectionEffectRuns(ml, st) THEN [iv EXCEPT ![i] = "armed"] ELSE iv

\* part_001:70-75  cleanup of the camera effect, given the value videoRef.current
\* has when the cleanup runs: stop every track of the attached stream.
CameraCleanup(ref, src, sm) ==
    IF ref # NULL /\ src # NoStream
    THEN [sm EXCEPT ![src] = "stopped"]
    ELSE sm

\* Variant: a cleanup that leaves the interval running.
DetectionCleanupKept(iv) == iv

\* part_001:151-155  cleanup of the detection effect: clearInterval when
\* detectionIntervalRef.current is set.
DetectionCleanup(iv) == IF iv # "none" THEN "cleared" ELSE iv

\* videoRef.current as the cleanups of an unmounting instance read it: React
\* has already detached the ref of the <video> (part_001:203) or not yet.
RefAtCleanup(i) == IF refsDetachFirst THEN NULL ELSE videoRef[i]

\* The effect cleanups of instance i run `times` times in succession, as
\* React (once) or a caller stopping the component (possibly again) runs
\* them.  The first run reads videoRef.current as RefAtCleanup gives it; by a
\* second run the ref has been detached.
RECURSIVE CleanupsRun(_, _, _, _)
CleanupsRun(i, ref, times, s) ==
    IF times = 0
    THEN s
    ELSE CleanupsRun(i, NULL, times - 1,
            [ streams   |-> IF CameraEffectRuns(modelsLoaded)
                            THEN CameraCleanup(ref, srcObject[i], s.streams)
                            ELSE s.streams,
              intervals |-> IF DetectionEffectRuns(modelsLoaded, isStreaming)
                            THEN [s.intervals EXCEPT ![i] = DetectionCleanup(@)]
                            ELSE s.intervals ])

\* React unmounts instance i: the refs are detached and the effect cleanups
\* run.  setIsStreaming(false) of the cleanup (part_001:73) updates a
\* component that is being removed, so the state it leaves is never rendered.
Unmount(i, times) ==
    LET after == CleanupsRun(i, RefAtCleanup(i), times,
                             [streams |-> streams, intervals |-> intervals])
    IN  /\ streams' = after.streams
        /\ intervals' = after.intervals
        /\ teardowns' = [teardowns EXCEPT ![i] = 1]
        /\ videoRef' = [videoRef EXCEPT ![i] = NULL]
        /\ lastDetections' = << >>
        /\ lastPoll' = "none"

\* ----------------------------------------------------------------- Init
\* App has rendered with stage 'capture' (MetadataFormComponent.jsx:97-101),
\* instance 1 is mounted with its initial state (part_001:9-14) and its three
\* effects have run once: loadModels() is pending (part_001:38).
Init ==
    /\ appAlive = TRUE
    /\ stage = "capture"
    /\ capturedImage = NULL
    /\ results = NULL
    /\ isLoading = FALSE
    /\ error = NULL
    /\ request = << >>
    /\ privacyAgreed = FALSE
    /\ cur = 1
    /\ faceDetected = FALSE
    /\ facesCount = 0
    /\ modelsLoaded = FALSE
    /\ isStreaming = FALSE
    /\ faceQuality = ""
    /\ load = [i \in Inst |-> IF i = 1 THEN "pending" ELSE "none"]
    /\ videoRef = [i \in Inst |-> NULL]
    /\ srcObject = [i \in Inst |-> NoStream]
    /\ metadataPending = [i \in Inst |-> FALSE]
    /\ streams = StartCamera([i \in Inst |-> "none"], 1, FALSE)
    /\ intervals = ArmInterval([i \in Inst |-> "none"], 1, FALSE, FALSE)
    /\ pollsInFlight = [i \in Inst |-> 0]
    /\ refsDetachFirst \in BOOLEAN
    /\ videoSize = [width |-> VideoWidth, height |-> VideoHeight]
    /\ lastDetections = << >>
    /\ lastPoll = "none"
    /\ onCaptureCalls = 0
    /\ encoded = 0
    /\ teardowns = [i \in Inst |-> 0]
    /\ alerted = NULL

\* ------------------------------------------------------------ loadModels
\* part_001:22-31  Promise.all of the five loadFromUri calls resolves:
\* setModelsLoaded(true).  On a mounted instance the re-render attaches the
\* <video> and <canvas> refs (part_001:199-212) and the effects that depend
\* on modelsLoaded run again.
LoadModelsResolved(i) ==
    /\ load[i] = "pending"
    /\ load' = [load EXCEPT ![i] = "resolved"]
    /\ IF Mounted(i)
       THEN /\ modelsLoaded' = TRUE
            /\ videoRef' = [videoRef EXCEPT ![i] = "video"]
            /\ streams' = StartCamera(streams, i, TRUE)
            /\ intervals' = ArmInterval(intervals, i, TRUE, isStreaming)
       ELSE UNCHANGED << modelsLoaded, videoRef, streams, intervals >>
    /\ alerted' = NULL
    /\ UNCHANGED << appVars, cur, faceDetected, facesCount, isStreaming,
                    faceQuality, srcObject, metadataPending, pollsInFlight,
                    platform, pollHist, onCaptureCalls, encoded,
                    teardowns >>

\* part_001:32-35  one of the loads rejects: the catch logs and alerts.
LoadModelsRejected(i) ==
    /\ load[i] = "pending"
    /\ load' = [load EXCEPT ![i] = "rejected"]
    /\ alerted' = "Failed to load face detection models. Please refresh the page."
    /\ UNCHANGED << appVars, cur, stateVars, videoRef, srcObject,
                    metadataPending, streams, intervals, pollsInFlight,
                    platform, pollHist, onCaptureCalls, encoded,
                    teardowns >>

\* ----------------------------------------------------------- startCamera
\* part_001:47-61  getUserMedia resolves with a live stream; it is attached
\* only if videoRef.current is set.
GetUserMediaResolved(i) ==
    /\ streams[i] = "requested"
    /\ streams' = [streams EXCEPT ![i] = "live"]
    /\ IF videoRef[i] # NULL
       THEN /\ srcObject' = [srcObject EXCEPT ![i] = i]
            /\ metadataPending' = [metadataPending EXCEPT ![i] = TRUE]
       ELSE UNCHANGED << srcObject, metadataPending >>
    /\ alerted' = NULL
    /\ UNCHANGED << appVars, cur, stateVars, load, videoRef, intervals,
                    pollsInFlight, platform, pollHist, onCaptureCalls,
                    encoded, teardowns >>

\* part_001:62-65  getUserMedia rejects (permission denied, no camera).
GetUserMediaRejected(i) ==
    /\ streams[i] = "requested"
    /\ streams' = [streams EXCEPT ![i] = "rejected"]
    /\ alerted' = "Please allow camera access to use this app."
    /\ UNCHANGED << appVars, cur, stateVars, load, videoRef, srcObject,
                    metadataPending, intervals, pollsInFlight,
                    platform, pollHist, onCaptureCalls, encoded,
                    teardowns >>

\* part_001:57-60  the loadedmetadata event of the video element fires:
\* videoRef.current.play() and setIsStreaming(true); with the ref detached
\* the handler throws a TypeError before setIsStreaming.  On a mounted
\* instance the re-render runs the detection effect (part_001:79-149).
OnLoadedMetadata(i) ==
    /\ metadataPending[i]
    /\ metadataPending' = [metadataPending EXCEPT ![i] = FALSE]
    /\ IF videoRef[i] # NULL /\ Mounted(i)
       THEN /\ isStreaming' = TRUE
            /\ intervals' = ArmInterval(intervals, i, modelsLoaded, TRUE)
       ELSE UNCHANGED << isStreaming, intervals >>
    /\ alerted' = NULL
    /\ UNCHANGED << appVars, cur, faceDetected, facesCount, modelsLoaded,
                    faceQuality, load, videoRef, srcObject, streams,
                    pollsInFlight, platform, pollHist, onCaptureCalls,
                    encoded, teardowns >>

\* ------------------------------------------------------------ detectFaces
\* Variant: a face of exactly 15% of the frame counted as well placed.
FaceQualityOfFrom15(box) ==
    LET faceArea  == box.width * box.height
        videoArea == videoSize.width * videoSize.height
    IN  IF faceArea * 100 >= CloserMax * videoArea /\ faceArea * 100 < BackMin * videoArea
        THEN "Good positioning"
        ELSE IF faceArea * 100 <= CloserMax * videoArea
             THEN "Move closer to camera"
             ELSE "Move back from camera"

\* Variant: a face of exactly 80% of the frame counted as well placed.
FaceQualityOfUpTo80(box) ==
    LET faceArea  == box.width * box.height
        videoArea == videoSize.width * videoSize.height
    IN  IF faceArea * 100 > CloserMax * videoArea /\ faceArea * 100 <= BackMin * videoArea
        THEN "Good positioning"
        ELSE IF faceArea * 100 <= CloserMax * videoArea
             THEN "Move closer to camera"
             ELSE "Move back from camera"

\* part_001:124-135  the quality label of one face record.  The canvas has
\* the size of the video frame (part_001:97-98).  facePercentage is
\* (faceArea / videoArea) * 100; the comparisons with 15 and 80 are made on
\* faceArea * 100 against the threshold times videoArea, which for whole-pixel
\* boxes and frames agree with the comparisons of the doubles.
FaceQualityOf(box) ==
    LET faceArea  == box.width * box.height
        videoArea == videoSize.width * videoSize.height
    IN  IF faceArea * 100 > CloserMax * videoArea /\ faceArea * 100 < BackMin * videoArea
        THEN "Good positioning"
        ELSE IF faceArea * 100 <= CloserMax * videoArea
             THEN "Move closer to camera"
             ELSE "Move back from camera"

\* part_001:114-136  resizedDetections.forEach: setFaceQuality is called for
\* every face record from index k on, in order, each call replacing the label.
RECURSIVE ForEachQuality(_, _, _)
ForEachQuality(q, detections, k) ==
    IF k > Len(detections)
    THEN q
    ELSE ForEachQuality(FaceQualityOf(detections[k]), detections, k + 1)

\* Variant: the comparison off by one.
FaceDetectedOfMoreThanOne(detections) == Len(detections) > 1

\* part_001:141  setFaceDetected(detections.length > 0)
FaceDetectedOf(detections) == Len(detections) > 0

\* Variant: a detection error that cancels the interval.
AfterDetectionErrorCleared(iv) == "cleared"

\* part_001:143-145  the catch of detectFaces logs the error and returns: the
\* interval of the instance is what it was.
AfterDetectionError(iv) == iv

\* part_001:82-94  a tick of the interval calls detectFaces, which returns at
\* once without the refs and otherwise suspends at await detectAllFaces.
\* Nothing keeps a tick from starting a poll while earlier ones are pending.
Tick(i) ==
    /\ intervals[i] = "armed"
    /\ pollsInFlight[i] < MaxInFlight
    /\ pollsInFlight' = IF videoRef[i] = NULL
                        THEN pollsInFlight
                        ELSE [pollsInFlight EXCEPT ![i] = @ + 1]
    /\ alerted' = NULL
    /\ UNCHANGED << appVars, cur, stateVars, load, videoRef, srcObject,
                    metadataPending, streams, intervals, platform,
                    pollHist, onCaptureCalls, encoded, teardowns >>

\* part_001:90-141  detectAllFaces resolves with `detections` for one of the
\* pending polls of the mounted instance: the overlay is drawn, the quality
\* label is set per face and the count and the flag are set.
PollReturns(i, detections) ==
    /\ pollsInFlight[i] > 0
    /\ Mounted(i)
    /\ pollsInFlight' = [pollsInFlight EXCEPT ![i] = @ - 1]
    /\ faceQuality' = ForEachQuality(faceQuality, detections, 1)
    /\ facesCount' = Len(detections)
    /\ faceDetected' = FaceDetectedOf(detections)
    /\ lastDetections' = detections
    /\ lastPoll' = "returned"
    /\ alerted' = NULL
    /\ UNCHANGED << appVars, cur, modelsLoaded, isStreaming, load, videoRef,
                    srcObject, metadataPending, streams, intervals,
                    platform, onCaptureCalls, encoded, teardowns >>

\* part_001:90-141  the same for a poll of an instance that has been
\* unmounted meanwhile: the overlay is drawn on the detached canvas and the
\* state setters change nothing, whatever the detections are.
StalePollReturns(i) ==
    /\ pollsInFlight[i] > 0
    /\ ~Mounted(i)
    /\ pollsInFlight' = [pollsInFlight EXCEPT ![i] = @ - 1]
    /\ alerted' = NULL
    /\ UNCHANGED << appVars, cur, stateVars, load, videoRef, srcObject,
                    metadataPending, streams, intervals, platform,
                    pollHist, onCaptureCalls, encoded, teardowns >>

\* Variant: a catch that also calls setFaceDetected(false).
DetectedAfterErrorReset(fd) == FALSE

\* part_001:143-145  faceDetected after the catch of detectFaces, which only
\* logs: the value the last poll that returned has left.
DetectedAfterError(fd) == fd

\* part_001:143-145  detectAllFaces rejects for one of the pending polls.
PollThrows(i) ==
    /\ pollsInFlight[i] > 0
    /\ pollsInFlight' = [pollsInFlight EXCEPT ![i] = @ - 1]
    /\ intervals' = [intervals EXCEPT ![i] = AfterDetectionError(@)]
    /\ IF Mounted(i)
       THEN /\ lastPoll' = "threw"
            /\ faceDetected' = DetectedAfterError(faceDetected)
            /\ UNCHANGED lastDetections
       ELSE UNCHANGED << pollHist, faceDetected >>
    /\ alerted' = NULL
    /\ UNCHANGED << appVars, cur, facesCount, modelsLoaded, isStreaming,
                    faceQuality, load, videoRef, srcObject,
                    metadataPending, streams, platform,
                    onCaptureCalls, encoded, teardowns >>

\* ---------------------------------------------------------- handleCapture
\* Variant: the guard dropped.
CaptureAllowedAlways(fd) == TRUE

\* part_001:160-163  the guard of handleCapture: it goes on only when
\* faceDetected is true.
CaptureAllowed(fd) == fd

\* Variant: onCapture also called from the catch.
OnCaptureCallsAfterAny(outcome, n) == n + 1

\* part_001:167-184  the number of onCapture calls after the try block has
\* run with the given outcome: one more after toDataURL returned, the same
\* after drawImage or toDataURL threw into the catch.
OnCaptureCallsAfter(outcome, n) == IF outcome = "encoded" THEN n + 1 ELSE n

\* Variant: a catch that reports the failure as a missing face.
CaptureCatchNoFace == "Please face the camera. No face detected!"

\* part_001:181-184  the catch of handleCapture: console.error and
\* alert('Failed to capture image').
CaptureCatchAlert == "Failed to capture image"

\* part_001:159-185 with App.handleCapture (MetadataFormComponent.jsx:119-123).
\* handleCapture is the capture() operation of the component, callable
\* whenever the capture controls are rendered (part_001:198, 239-246); it
\* checks faceDetected itself and does not rely on the button being disabled.
\* `frame` is what drawing and encoding the current frame yields: an image,
\* or "throws".
\* onCapture(base64Image) is App.handleCapture: the image is stored, the stage
\* becomes 'form', and the re-render of App unmounts the instance.
HandleCapture(frame) ==
    /\ Mounted(cur)
    /\ modelsLoaded
    /\ IF ~CaptureAllowed(faceDetected)
       THEN /\ alerted' = "Please face the camera. No face detected!"
            /\ UNCHANGED << appVars, videoRef, streams, intervals, teardowns,
                            onCaptureCalls, encoded, pollHist >>
       ELSE IF videoRef[cur] = NULL
       THEN /\ alerted' = NULL
            /\ UNCHANGED << appVars, videoRef, streams, intervals, teardowns,
                            onCaptureCalls, encoded, pollHist >>
       ELSE IF frame = "throws"
       THEN /\ alerted' = CaptureCatchAlert
            /\ onCaptureCalls' = OnCaptureCallsAfter("threw", onCaptureCalls)
            /\ UNCHANGED << appVars, videoRef, streams, intervals, teardowns,
                            encoded, pollHist >>
       ELSE /\ alerted' = NULL
            /\ encoded' = encoded + 1
            /\ onCaptureCalls' = OnCaptureCallsAfter("encoded", onCaptureCalls)
            /\ capturedImage' = frame
            /\ stage' = "form"
            /\ error' = NULL
            /\ Unmount(cur, 1)
            /\ privacyAgreed' = FALSE
            /\ UNCHANGED << appAlive, results, isLoading, request >>
    /\ UNCHANGED << cur, stateVars, load, srcObject, metadataPending,
                    pollsInFlight, platform >>

\* ------------------------------------------------------------------- App
\* MetadataFormComponent.jsx:53  the privacy checkbox is toggled.
TogglePrivacy ==
    /\ appAlive
    /\ stage = "form"
    /\ privacyAgreed' = ~privacyAgreed
    /\ alerted' = NULL
    /\ UNCHANGED << appAlive, stage, capturedImage, results, isLoading, error,
                    request, cur, stateVars, load, videoRef, srcObject,
                    metadataPending, streams, intervals, pollsInFlight,
                    platform, pollHist, onCaptureCalls, encoded,
                    teardowns >>

\* Variant: no rules registered for userName.
NameValidAny(name) == TRUE

\* MetadataFormComponent.jsx:36-39  the rules registered for userName.
NameValid(name) == name # "" /\ Len(name) >= 2

\* Variant: a submit button that stays enabled while a search is running.
SubmitDisabledUnchecked(loading, agreed) == ~agreed

\* MetadataFormComponent.jsx:67-69  disabled={isLoading || !privacyAgreed}
SubmitDisabled(loading, agreed) == loading \/ ~agreed

\* MetadataFormComponent.jsx:15-21  the payload onSubmit builds.  session_id
\* and timestamp are fresh values nothing reads and are left out.
Payload(name, image, agreed) ==
    [ user_name              |-> name,
      captured_image         |-> image,
      privacy_policy_agreed  |-> agreed ]

\* MetadataFormComponent.jsx:132-139  base64Image.split(',')[1] || base64Image,
\* then atob and charCodeAt: the bytes of the JPEG file.
FileBytes(image) ==
    CASE image = "data:image/jpeg;base64,AAAA" -> << 0, 0, 0 >>
      [] image = "data:image/jpeg;base64,BBBB" -> << 4, 16, 65 >>

\* MetadataFormComponent.jsx:143-146  the FormData handleSearch posts.
FormDataOf(payload) ==
    [ image          |-> FileBytes(payload.captured_image),
      user_name      |-> IF payload.user_name = "" THEN "Guest"
                                                   ELSE payload.user_name,
      privacy_agreed |-> (payload.privacy_policy_agreed \/ TRUE) ]

\* Variant: a catch that leaves the error unset.
ErrorOfNone(message) == NULL

\* MetadataFormComponent.jsx:152  setError(err.message || 'Analysis failed.
\* Please try again.')
ErrorOf(message) ==
    IF message = "" THEN "Analysis failed. Please try again." ELSE message

\* MetadataFormComponent.jsx:9-24, 67-69 with App.handleSearch (125-148): the
\* submit button, enabled only when not loading and the box is checked, is
\* pressed.  handleSubmit calls onSubmit only for a valid name; onSubmit
\* hands the payload to handleSearch, which sets isLoading, clears the error
\* and awaits analyzeFace.
Submit(name) ==
    /\ appAlive
    /\ stage = "form"
    /\ ~SubmitDisabled(isLoading, privacyAgreed)
    /\ Len(request) < MaxRequests
    /\ IF ~NameValid(name)
       THEN /\ alerted' = NULL
            /\ UNCHANGED << isLoading, error, request >>
       ELSE IF ~privacyAgreed
       THEN /\ alerted' = "Please agree to the privacy policy"
            /\ UNCHANGED << isLoading, error, request >>
       ELSE /\ alerted' = NULL
            /\ isLoading' = TRUE
            /\ error' = NULL
            /\ request' = Append(request,
                    LET payload == Payload(name, capturedImage, privacyAgreed)
                    IN  [payload |-> payload, formData |-> FormDataOf(payload)])
    /\ UNCHANGED << appAlive, stage, capturedImage, results, privacyAgreed,
                    cur, stateVars, load, videoRef, srcObject,
                    metadataPending, streams, intervals, pollsInFlight,
                    platform, pollHist, onCaptureCalls, encoded,
                    teardowns >>

\* MetadataFormComponent.jsx:148-150, 154-156  analyzeFace resolves.
AnalyzeResolved(response) ==
    /\ request # << >>
    /\ request' = Tail(request)
    /\ IF appAlive
       THEN /\ results' = response
            /\ stage' = "results"
            /\ isLoading' = FALSE
       ELSE UNCHANGED << results, stage, isLoading >>
    /\ alerted' = NULL
    /\ UNCHANGED << appAlive, capturedImage, error, privacyAgreed, cur,
                    stateVars, load, videoRef, srcObject, metadataPending,
                    streams, intervals, pollsInFlight, platform,
                    pollHist, onCaptureCalls, encoded, teardowns >>

\* MetadataFormComponent.jsx:151-156  analyzeFace rejects.
AnalyzeRejected(message) ==
    /\ request # << >>
    /\ request' = Tail(request)
    /\ IF appAlive
       THEN /\ error' = ErrorOf(message)
            /\ isLoading' = FALSE
       ELSE UNCHANGED << error, isLoading >>
    /\ alerted' = NULL
    /\ UNCHANGED << appAlive, stage, capturedImage, results, privacyAgreed,
                    cur, stateVars, load, videoRef, srcObject,
                    metadataPending, streams, intervals, pollsInFlight,
                    platform, pollHist, onCaptureCalls, encoded,
                    teardowns >>

\* Variant: a New Search that keeps what the last round left.
KeptByNewSearch(value) == value

\* MetadataFormComponent.jsx:161-163  setCapturedImage(null), setResults(null)
\* and setError(null) of handleNewSearch.
ClearedByNewSearch(value) == NULL

\* MetadataFormComponent.jsx:159-164  New Search: back to 'capture' with the
\* image, the results and the error cleared.  The re-render mounts a new
\* FaceCaptureComponent with its initial state (part_001:9-14) and runs its
\* effects once.
HandleNewSearch ==
    /\ appAlive
    /\ stage = "results"
    /\ cur < MaxInstances
    /\ stage' = "capture"
    /\ capturedImage' = ClearedByNewSearch(capturedImage)
    /\ results' = ClearedByNewSearch(results)
    /\ error' = ClearedByNewSearch(error)
    /\ cur' = cur + 1
    /\ faceDetected' = FALSE
    /\ facesCount' = 0
    /\ modelsLoaded' = FALSE
    /\ isStreaming' = FALSE
    /\ faceQuality' = ""
    /\ load' = [load EXCEPT ![cur + 1] = "pending"]
    /\ streams' = StartCamera(streams, cur + 1, FALSE)
    /\ intervals' = ArmInterval(intervals, cur + 1, FALSE, FALSE)
    /\ UNCHANGED pollHist
    /\ alerted' = NULL
    /\ UNCHANGED << appAlive, isLoading, request, privacyAgreed, videoRef,
                    srcObject, metadataPending, pollsInFlight,
                    platform, onCaptureCalls, encoded, teardowns >>

\* The caller tears App down (and with it a mounted FaceCaptureComponent) in
\* whatever state it is in, running the cleanups once or twice in succession.
AppUnmount(times) ==
    /\ appAlive
    /\ appAlive' = FALSE
    /\ IF stage = "capture"
       THEN Unmount(cur, times)
       ELSE UNCHANGED << videoRef, streams, intervals, teardowns, pollHist >>
    /\ alerted' = NULL
    /\ UNCHANGED << stage, capturedImage, results, isLoading, error, request,
                    privacyAgreed, cur, stateVars, load, srcObject,
                    metadataPending, pollsInFlight, platform,
                    onCaptureCalls, encoded >>

Next ==
    \/ \E i \in Inst : LoadModelsResolved(i)
    \/ \E i \in Inst : LoadModelsRejected(i)
    \/ \E i \in Inst : GetUserMediaResolved(i)
    \/ \E i \in Inst : GetUserMediaRejected(i)
    \/ \E i \in Inst : OnLoadedMetadata(i)
    \/ \E i \in Inst : Tick(i)
    \/ \E i \in Inst, d \in Detections : PollReturns(i, d)
    \/ \E i \in Inst : StalePollReturns(i)
    \/ \E i \in Inst : PollThrows(i)
    \/ \E frame \in Images \cup {"throws"} : HandleCapture(frame)
    \/ TogglePrivacy
    \/ \E name \in Names : Submit(name)
    \/ \E r \in Responses : AnalyzeResolved(r)
    \/ \E m \in Failures : AnalyzeRejected(m)
    \/ HandleNewSearch
    \/ \E times \in 1..2 : AppUnmount(times)

Spec == Init /\ [][Next]_vars

\* The runs in which the cleanups still see videoRef.current at unmount.
InitRefsAttached == Init /\ ~refsDetachFirst
SpecRefsAttached == InitRefsAttached /\ [][Next]_vars

\* What the browser guarantees of the asynchronous work of an instance: a
\* pending loadModels() or getUserMedia() promise settles, the video element
\* of an attached stream fires loadedmetadata, an armed interval keeps
\* calling detectFaces (part_001:149), and a pending detectAllFaces settles.
Fairness ==
    \A i \in Inst :
        /\ WF_vars(LoadModelsResolved(i) \/ LoadModelsRejected(i))
        /\ WF_vars(GetUserMediaResolved(i) \/ GetUserMediaRejected(i))
        /\ WF_vars(OnLoadedMetadata(i))
        /\ WF_vars(Tick(i))
        /\ WF_vars(\/ \E detections \in Detections : PollReturns(i, detections)
                   \/ StalePollReturns(i)
                   \/ PollThrows(i))

\* The life of the instance mounted first, from mount to teardown, with the
\* detection results that tell a poll with a face from one without.
LoopDetections == { d \in Detections : Len(d) <= 1 }

NextLoop ==
    \/ LoadModelsResolved(1)
    \/ LoadModelsRejected(1)
    \/ GetUserMediaResolved(1)
    \/ GetUserMediaRejected(1)
    \/ OnLoadedMetadata(1)
    \/ Tick(1)
    \/ \E d \in LoopDetections : PollReturns(1, d)
    \/ StalePollReturns(1)
    \/ PollThrows(1)
    \/ \E frame \in Images \cup {"throws"} : HandleCapture(frame)
    \/ \E times \in 1..2 : AppUnmount(times)

SpecFair == Init /\ [][NextLoop]_vars /\ Fairness

\* The detection loop of a streaming instance on its own, over frames of
\* every size in Frames and boxes at the thresholds of the heuristic.  The
\* initial state is the one instance 1 is in when loadModels and
\* getUserMedia have resolved and loadedmetadata has fired (part_001:17-61).
InitQuality ==
    /\ appAlive = TRUE
    /\ stage = "capture"
    /\ capturedImage = NULL
    /\ results = NULL
    /\ isLoading = FALSE
    /\ error = NULL
    /\ request = << >>
    /\ privacyAgreed = FALSE
    /\ cur = 1
    /\ faceDetected = FALSE
    /\ facesCount = 0
    /\ modelsLoaded = TRUE
    /\ isStreaming = TRUE
    /\ faceQuality = ""
    /\ load = [i \in Inst |-> IF i = 1 THEN "resolved" ELSE "none"]
    /\ videoRef = [i \in Inst |-> IF i = 1 THEN "video" ELSE NULL]
    /\ srcObject = [i \in Inst |-> IF i = 1 THEN 1 ELSE NoStream]
    /\ metadataPending = [i \in Inst |-> FALSE]
    /\ streams = [i \in Inst |-> IF i = 1 THEN "live" ELSE "none"]
    /\ intervals = ArmInterval([i \in Inst |-> "none"], 1, TRUE, TRUE)
    /\ pollsInFlight = [i \in Inst |-> 0]
    /\ refsDetachFirst \in BOOLEAN
    /\ videoSize \in Frames
    /\ lastDetections = << >>
    /\ lastPoll = "none"
    /\ onCaptureCalls = 0
    /\ encoded = 0
    /\ teardowns = [i \in Inst |-> 0]
    /\ alerted = NULL

NextQuality ==
    \/ Tick(1)
    \/ \E detections \in QualityDetections(videoSize) : PollReturns(1, detections)
    \/ PollThrows(1)

SpecQuality == InitQuality /\ [][NextQuality]_vars

TypeOK ==
    /\ stage \in {"capture", "form", "results"}
    /\ cur \in Inst
    /\ facesCount \in 0..MaxFaces
    /\ \A i \in Inst : pollsInFlight[i] \in 0..MaxInFlight
    /\ onCaptureCalls \in 0..MaxInstances

\* ================================================================ claims
NoFaceAlert == "Please face the camera. No face detected!"

\* C1: whenever handleCapture runs while the most recent poll of the mounted
\* instance returned no face records, it raises the no-face alert, encodes no
\* image, does not call onCapture and leaves App where it was.
C1_NoFaceCaptureFails ==
    [][ ( /\ lastPoll = "returned"
          /\ lastDetections = << >>
          /\ \E frame \in Images \cup {"throws"} : HandleCapture(frame) )
        => ( /\ alerted' = NoFaceAlert
             /\ encoded' = encoded
             /\ onCaptureCalls' = onCaptureCalls
             /\ capturedImage' = capturedImage
             /\ stage' = stage ) ]_vars

\* handleCapture has just refused after a poll that found faces was followed
\* by one that returned none.
C1_Witness ==
    /\ alerted = NoFaceAlert
    /\ lastPoll = "returned"
    /\ lastDetections = << >>
    /\ faceQuality # ""

\* C2: in every state of a mounted, streaming instance, faceDetected is true
\* exactly when the most recent poll that returned a result returned at
\* least one face record.
C2_FaceDetectedIffFaces ==
    (Mounted(cur) /\ isStreaming)
        => (faceDetected <=> (Len(lastDetections) > 0))

\* A poll with one face has just been applied, and the flag is up.
C2_Witness ==
    /\ Mounted(cur)
    /\ isStreaming
    /\ lastPoll = "returned"
    /\ Len(lastDetections) = 1
    /\ faceDetected

\* C3: every run of handleCapture calls onCapture exactly once if it encoded
\* an image and not at all otherwise (no face, no video element, drawing or
\* encoding threw), and only a call of onCapture moves App on.
C3_OnCaptureOncePerSuccess ==
    [][ (\E frame \in Images \cup {"throws"} : HandleCapture(frame))
        => ( /\ onCaptureCalls' - onCaptureCalls = encoded' - encoded
             /\ encoded' = encoded
                    => (stage' = stage /\ capturedImage' = capturedImage)
             /\ alerted' # NULL => onCaptureCalls' = onCaptureCalls ) ]_vars

\* A capture has succeeded after one that failed in drawing or encoding: the
\* image reached App, which moved to the form, by the only onCapture call.
C3_Witness ==
    /\ onCaptureCalls = 1
    /\ encoded = 1
    /\ stage = "form"
    /\ capturedImage \in Images

\* C4: once the cleanups of an instance have run and its camera request is
\* no longer pending, the stream it acquired has no running tracks (checked
\* on the runs in which the cleanups still see videoRef.current).
C4_NoLiveStreamAfterTeardown ==
    \A i \in Inst :
        (teardowns[i] >= 1 /\ streams[i] # "requested") => streams[i] # "live"

\* C5: at most one camera stream has running tracks.
C5_AtMostOneLiveStream ==
    Cardinality({ i \in Inst : streams[i] = "live" }) <= 1

\* C6: an instance never has two detection polls in flight.
C6_PollsNeverOverlap ==
    \A i \in Inst : pollsInFlight[i] <= 1

\* C7: an instance whose model loading failed has raised the model alert,
\* never sets modelsLoaded and never asks for a camera stream.
C7_NoCameraAfterLoadFailure ==
    \A i \in Inst :
        load[i] = "rejected"
            => ( /\ streams[i] = "none"
                 /\ srcObject[i] = NoStream
                 /\ i = cur => ~modelsLoaded )

\* Model loading has failed, and the component has since been torn down
\* without a camera request.
C7_Witness ==
    /\ load[cur] = "rejected"
    /\ teardowns[cur] = 1
    /\ streams[cur] = "none"

\* C8: an instance whose camera request was rejected never arms the poll
\* interval, never starts a poll and never sets isStreaming.
C8_NoPollingAfterCameraRejection ==
    \A i \in Inst :
        streams[i] = "rejected"
            => ( /\ intervals[i] = "none"
                 /\ pollsInFlight[i] = 0
                 /\ i = cur => (~isStreaming /\ ~faceDetected) )

\* The camera request of the second instance has been rejected.
C8_Witness ==
    /\ cur = 2
    /\ streams[cur] = "rejected"
    /\ alerted = "Please allow camera access to use this app."

\* C9: a poll whose detection call throws leaves the interval of its instance
\* as it was: an armed interval stays armed and nothing keeps its next tick
\* from starting a poll.
C9_LoopSurvivesDetectionError ==
    [][ \A i \in Inst :
            PollThrows(i)
                => ( /\ intervals'[i] = intervals[i]
                     /\ intervals[i] = "armed"
                            => (intervals'[i] = "armed" /\ pollsInFlight'[i] < MaxInFlight) ) ]_vars

\* Ticks have started polls after the most recent poll threw: the throw left
\* fewer than MaxInFlight polls pending, and MaxInFlight are pending again.
C9_Witness ==
    /\ lastPoll = "threw"
    /\ intervals[cur] = "armed"
    /\ pollsInFlight[cur] = MaxInFlight

\* C10: running the cleanups of a mounted instance twice in succession
\* leaves what running them once leaves, and after the second run the
\* instance has no stream with running tracks and no armed interval.
C10_TeardownIdempotent ==
    [][ (stage = "capture" /\ AppUnmount(2))
        => ( /\ CleanupsRun(cur, RefAtCleanup(cur), 1,
                            [streams |-> streams, intervals |-> intervals])
                  = [streams |-> streams', intervals |-> intervals']
             /\ streams'[cur] # "live"
             /\ intervals'[cur] # "armed" ) ]_vars

\* C11: once an instance that had reached Streaming has been torn down, its
\* interval is not armed, the stream attached to its video element has no
\* running track, and no step starts a detection poll for it.
C11_TeardownStopsLoop ==
    [][ \A i \in Inst :
            (teardowns'[i] = 1 /\ intervals'[i] # "none")
                => ( /\ intervals'[i] # "armed"
                     /\ streams'[srcObject'[i]] # "live"
                     /\ pollsInFlight'[i] <= pollsInFlight[i] ) ]_vars

\* C12 as stated: a successful capture leaves faceDetected as it was, the
\* interval of the instance armed and its stream live.
C12_CaptureLeavesLoop ==
    [][ ((\E frame \in Images : HandleCapture(frame)) /\ encoded' = encoded + 1)
        => ( /\ faceDetected' = faceDetected
             /\ intervals'[cur] = "armed"
             /\ streams'[cur] = "live" ) ]_vars

\* C12 amended: a successful capture leaves faceDetected as it was, but
\* onCapture moves App to the form stage and the instance is unmounted: its
\* armed interval is cleared, and its live stream is stopped when the cleanup
\* still finds the video element and stays live when it does not.
C12_CaptureEndsLoop ==
    [][ ((\E frame \in Images : HandleCapture(frame)) /\ encoded' = encoded + 1)
        => ( /\ faceDetected' = faceDetected
             /\ stage' = "form"
             /\ intervals[cur] = "armed"
             /\ intervals'[cur] = "cleared"
             /\ streams[cur] = "live"
             /\ streams'[cur] = IF refsDetachFirst THEN "live" ELSE "stopped" ) ]_vars

\* A capture has succeeded from Streaming with a poll still pending: the
\* instance is gone, its interval cleared.
C12_Witness ==
    /\ stage = "form"
    /\ encoded = 1
    /\ faceDetected
    /\ intervals[cur] = "cleared"
    /\ pollsInFlight[cur] > 0

\* C13: the quality label left by a poll that returned faces is determined
\* by the share of the frame area that the box of the face labelled last
\* takes: 'Move closer to camera' up to 15%, 'Good positioning' strictly
\* between 15% and 80%, 'Move back from camera' from 80% on, for every box
\* and every frame size.
C13_QualityByPercentage ==
    (Mounted(cur) /\ lastDetections # << >>)
        => LET box   == lastDetections[Len(lastDetections)]
               share == box.width * box.height * 100
               whole == videoSize.width * videoSize.height
           IN  /\ share <= 15 * whole => faceQuality = "Move closer to camera"
               /\ (15 * whole < share /\ share < 80 * whole)
                      => faceQuality = "Good positioning"
               /\ share >= 80 * whole => faceQuality = "Move back from camera"

\* A poll has labelled a face that takes exactly 15% of a 640x480 frame.
C13_Witness ==
    /\ videoSize = [width |-> 640, height |-> 480]
    /\ lastPoll = "returned"
    /\ lastDetections = << [width |-> 96, height |-> 480] >>
    /\ faceQuality = "Move closer to camera"

\* C14 as stated: in a 1000x750 frame a lone face of 14.9% of the frame is
\* labelled 'Move closer to camera', one of 15.0% and one of 79.9% 'Good
\* positioning', one of 80.0% 'Move back from camera'.
C14_FifteenIsGood ==
    (Mounted(cur) /\ videoSize.width = 1000 /\ Len(lastDetections) = 1
        /\ lastDetections[1].height = 750)
        => LET w == lastDetections[1].width
           IN  /\ w = 149 => faceQuality = "Move closer to camera"
               /\ w = 150 => faceQuality = "Good positioning"
               /\ w = 799 => faceQuality = "Good positioning"
               /\ w = 800 => faceQuality = "Move back from camera"

\* C14 amended: in a 1000x750 frame a lone face of 14.9% of the frame and
\* one of exactly 15.0% are both labelled 'Move closer to camera', one of
\* 79.9% 'Good positioning', one of exactly 80.0% 'Move back from camera'.
C14_FifteenIsCloser ==
    (Mounted(cur) /\ videoSize.width = 1000 /\ Len(lastDetections) = 1
        /\ lastDetections[1].height = 750)
        => LET w == lastDetections[1].width
           IN  /\ w = 149 => faceQuality = "Move closer to camera"
               /\ w = 150 => faceQuality = "Move closer to camera"
               /\ w = 799 => faceQuality = "Good positioning"
               /\ w = 800 => faceQuality = "Move back from camera"

\* A poll has labelled a lone face that takes exactly 15.0% of a 1000x750
\* frame.
C14_Witness ==
    /\ videoSize = [width |-> 1000, height |-> 750]
    /\ lastPoll = "returned"
    /\ lastDetections = << [width |-> 150, height |-> 750] >>
    /\ faceQuality = "Move closer to camera"

\* C15: after a poll of the mounted instance returned face records, the
\* quality label is the label of the first of them.
C15_FirstFaceLabelled ==
    (Mounted(cur) /\ lastDetections # << >>)
        => faceQuality = FaceQualityOf(lastDetections[1])

\* C16: when drawing or encoding the frame throws inside handleCapture, the
\* failure is reported by its own alert and not by the no-face alert,
\* onCapture is not called, App stays where it was, and the interval, the
\* stream, the pending polls and the detection state are left as they were.
C16_EncodingFailureReported ==
    [][ (faceDetected /\ videoRef[cur] # NULL /\ HandleCapture("throws"))
        => ( /\ alerted' = "Failed to capture image"
             /\ alerted' # NoFaceAlert
             /\ onCaptureCalls' = onCaptureCalls
             /\ encoded' = encoded
             /\ stage' = stage /\ capturedImage' = capturedImage
             /\ intervals' = intervals /\ intervals[cur] = "armed"
             /\ streams' = streams /\ streams[cur] = "live"
             /\ pollsInFlight' = pollsInFlight
             /\ stateVars' = stateVars ) ]_vars

\* Encoding has just failed on a streaming instance with a poll pending.
C16_Witness ==
    /\ Mounted(cur)
    /\ alerted = "Failed to capture image"
    /\ faceDetected
    /\ intervals[cur] = "armed"
    /\ streams[cur] = "live"
    /\ pollsInFlight[cur] > 0
    /\ onCaptureCalls = 0

\* C17: on the mounted instance facesCount is the number of face records of
\* the most recent poll that returned, and faceQuality is what labelling
\* those records alone yields: no label when there are none.
C17_StateFromLatestResult ==
    Mounted(cur)
        => ( /\ facesCount = Len(lastDetections)
             /\ faceQuality = ForEachQuality("", lastDetections, 1) )

\* C18: in every reachable state isStreaming implies modelsLoaded, an
\* instance has asked for the camera only if its models have loaded, and an
\* interval is armed only on the mounted instance and only while modelsLoaded
\* and isStreaming are both true.
C18_LifecycleForward ==
    /\ isStreaming => modelsLoaded
    /\ \A i \in Inst : streams[i] # "none" => load[i] = "resolved"
    /\ \A i \in Inst :
           intervals[i] = "armed" => (Mounted(i) /\ modelsLoaded /\ isStreaming)

\* The instance mounted by New Search has gone through loading and camera
\* start and is polling.
C18_Witness ==
    /\ cur = 2
    /\ Mounted(cur)
    /\ load[cur] = "resolved"
    /\ streams[cur] = "live"
    /\ intervals[cur] = "armed"
    /\ pollsInFlight[cur] > 0

C20_FailedPollKeepsState ==
    [][ /\ \A i \in Inst :
               PollThrows(i)
                   => ( /\ faceDetected' = faceDetected
                        /\ facesCount' = facesCount
                        /\ faceQuality' = faceQuality )
        /\ ( /\ lastPoll = "threw"
             /\ videoRef[cur] # NULL
             /\ \E frame \in Images : HandleCapture(frame) )
               => ( /\ (encoded' = encoded + 1) <=> (Len(lastDetections) > 0)
                    /\ (onCaptureCalls' = onCaptureCalls + 1) <=> (Len(lastDetections) > 0)
                    /\ (alerted' = NoFaceAlert) <=> (Len(lastDetections) = 0) )
      ]_vars

\* A poll has thrown after an earlier one returned a face: the flag, the
\* count and the label of that earlier poll are still there and handleCapture
\* can go on.
C20_Witness ==
    /\ Mounted(cur)
    /\ lastPoll = "threw"
    /\ Len(lastDetections) > 0
    /\ faceDetected
    /\ facesCount = Len(lastDetections)
    /\ faceQuality # ""
    /\ videoRef[cur] # NULL

\* C21: the stage of a living App changes only from capture to form in a
\* step in which onCapture delivers an image, from form to results in a step
\* in which a pending analyzeFace request resolves, and from results to
\* capture by New Search; and a rejected analyzeFace request leaves the stage
\* at form and the results as they were and sets an error that is not null.
C21_StageTransitions ==
    [][ /\ (appAlive /\ stage' # stage)
            => \/ /\ stage = "capture" /\ stage' = "form"
                  /\ onCaptureCalls' = onCaptureCalls + 1
                  /\ capturedImage' \in Images
               \/ /\ stage = "form" /\ stage' = "results"
                  /\ request # << >> /\ Len(request') = Len(request) - 1
                  /\ results' \in Responses
               \/ /\ stage = "results" /\ stage' = "capture"
                  /\ HandleNewSearch
        /\ (appAlive /\ \E m \in Failures : AnalyzeRejected(m))
            => ( /\ stage = "form" /\ stage' = "form"
                 /\ results' = results
                 /\ error' # NULL )
      ]_vars

\* After a full round through capture, form, results and New Search, the
\* analyzeFace request of the second round has been rejected.
C21_Witness ==
    /\ appAlive
    /\ cur = 2
    /\ stage = "form"
    /\ error # NULL
    /\ results = NULL
    /\ request = << >>
    /\ ~isLoading

\* C22: in every state of a living App the stage is form or results only
\* with a captured image, results only with results, and capture only with
\* no captured image, no results and no error, as New Search leaves them.
C22_StageData ==
    appAlive
        => ( /\ stage \in {"form", "results"} => capturedImage # NULL
             /\ stage = "results" => results # NULL
             /\ stage = "capture"
                    => (capturedImage = NULL /\ results = NULL /\ error = NULL) )

\* New Search has brought App back to capture after a round that ended with
\* results.
C22_Witness ==
    /\ appAlive
    /\ cur = 2
    /\ stage = "capture"
    /\ encoded = 1
    /\ capturedImage = NULL
    /\ results = NULL
    /\ error = NULL
    /\ load[cur] = "pending"

\* C23: in every state of a living App at most one analyzeFace request is
\* pending, and isLoading is true exactly when one is.
C23_OneRequestWhileLoading ==
    appAlive
        => ( /\ Len(request) <= 1
             /\ isLoading <=> (request # << >>) )

\* A search is running in the second round, after the request of the first
\* round has resolved and isLoading has been false in between.
C23_Witness ==
    /\ appAlive
    /\ cur = 2
    /\ stage = "form"
    /\ Len(request) = 1
    /\ isLoading

\* C24: whenever the form hands a payload to onSearch, the privacy box is
\* checked and the user name is present and at least 2 characters long; the
\* payload has privacy_policy_agreed true and carries the captured image as
\* App holds it, and the privacy_agreed field of the FormData posted to the
\* backend is true.
C24_SearchOnlyWhenAgreedAndNamed ==
    [][ Len(request') > Len(request)
        => LET call == request'[Len(request')]
           IN  /\ privacyAgreed
               /\ call.payload.user_name # ""
               /\ Len(call.payload.user_name) >= 2
               /\ call.payload.privacy_policy_agreed = TRUE
               /\ capturedImage \in Images
               /\ call.payload.captured_image = capturedImage
               /\ call.formData.privacy_agreed = TRUE ]_vars

\* A search with a valid name and the box checked is awaiting analyzeFace.
C24_Witness ==
    /\ appAlive
    /\ privacyAgreed
    /\ Len(request) = 1
    /\ request[1].payload.user_name = "Al"
    /\ request[1].payload.captured_image = "data:image/jpeg;base64,BBBB"
    /\ request[1].formData.image = << 4, 16, 65 >>
    /\ request[1].formData.privacy_agreed

====
